---- MODULE Spec2Model ----
(***************************************************************************)
(* Model of the Siemens AI Document Migration pipeline:                    *)
(*   schema.py    SiemensSOP            (the validated record)             *)
(*   migrator.py  read_file, extract_sop, generate_word_doc                *)
(*   app.py       the Streamlit script (session state, button handlers)    *)
(*                                                                         *)
(* Text that the code inspects character by character (the title, the     *)
(* version, page texts) is a sequence of one-character strings; text the   *)
(* code only copies (department, list entries) is a TLA+ string.  An       *)
(* optional value (Python None or a value) is a sequence of length 0 or 1. *)
(***************************************************************************)
EXTENDS Integers, Sequences, FiniteSets, TLC

VARIABLES
    \* ---- schema.py: one validation of one candidate
    cand,          \* the candidate data handed to SiemensSOP(...)
    vres,          \* << >> before validation, then <<[ok, rec]>>
    \* ---- migrator.py generate_word_doc applied to one record
    rec,           \* the record being rendered
    rres,          \* << >> before the render, then <<[doc, path]>>
    \* ---- migrator.py read_file applied to one file
    file,          \* the input file
    fres,          \* << >> before the read, then <<[ok, err, text]>>
    \* ---- app.py: one browser session of the Streamlit script, and runs of
    \* ---- the command line entry point of migrator.py beside it
    envKey,        \* os.environ["OPENAI_API_KEY"] of the app: << >> (unset) or <<key>>
    api_key_input, \* widget: the text in the API key override box
    uploaded_file, \* widget: << >> (None) or <<file>>
    selected_sample, \* widget: the entry chosen in the sample select box
    sop_data,      \* st.session_state.sop_data: << >> (None) or <<record>>
    sop_from,      \* history: the raw text sop_data was extracted from
    output_path,   \* st.session_state.output_path: << >> (not set) or <<path>>
    path_from,     \* history: the record output_path was rendered from
    netCalls,      \* number of requests sent to the extraction capability
    lastExtract,   \* history: << >> or <<the last extraction attempt>>
    \* ---- OUTPUT_DIR and the renders writing to it
    fs,            \* OUTPUT_DIR: function from the paths of its files to their content
    pending,       \* per renderer: << >> or <<[rec, doc, path]>> built, not yet saved
    lastSaved      \* history: << >> or <<the last doc.save that completed>>

schemaVars == <<cand, vres>>
renderVars == <<rec, rres>>
readerVars == <<file, fres>>
appVars    == <<envKey, api_key_input, uploaded_file, selected_sample, sop_data,
                sop_from, output_path, path_from, netCalls, lastExtract>>
outVars    == <<fs, pending, lastSaved>>
vars       == <<cand, vres, rec, rres, file, fres, envKey, api_key_input,
                uploaded_file, selected_sample, sop_data, sop_from, output_path,
                path_from, netCalls, lastExtract, fs, pending, lastSaved>>

-----------------------------------------------------------------------------
(* Generic helpers *)

\* The sequences over S of length at most n.
SeqUpTo(S, n) == UNION {[1..k -> S] : k \in 0..n}

Range(s) == {s[i] : i \in 1..Len(s)}

\* c repeated n times.
Rep(c, n) == [i \in 1..n |-> c]

Min(a, b) == IF a < b THEN a ELSE b

-----------------------------------------------------------------------------
(* schema.py *)

\* Field(ge=1, le=10)
ScoreGe == 1
ScoreLe == 10

\* Bounds of the candidates that are validated.
ScoreMargin == 2
MaxListLen == 2

FieldNames == {"title", "document_id", "version", "department",
               "safety_warnings", "equipment", "steps", "confidence_score"}

TitlesTried == {<< >>, <<"V">>, <<"V", " ", "O">>}
TextsTried  == {"", "Wear gloves."}
ListsTried  == SeqUpTo(TextsTried, MaxListLen)

\* What may be handed to the SiemensSOP constructor: every field is either
\* absent (named in missing) or carries a value of the declared type.
Candidates ==
    [title : TitlesTried, document_id : {"SOP-2024-001"}, version : {<<"2", ".", "0">>},
     department : {"", "Manufacturing"},
     safety_warnings : ListsTried, equipment : {<< >>, <<"">>, <<"Wrench">>}, steps : ListsTried,
     confidence_score : (ScoreGe - ScoreMargin)..(ScoreLe + ScoreMargin),
     missing : {{}, {"title"}, {"confidence_score"}}]

\* The fields of a constructed SiemensSOP instance.
RecordOf(c) ==
    [title |-> c.title, document_id |-> c.document_id, version |-> c.version,
     department |-> c.department, safety_warnings |-> c.safety_warnings,
     equipment |-> c.equipment, steps |-> c.steps,
     confidence_score |-> c.confidence_score]

\* A plausible slip: the score is clamped into range instead of rejected.
SiemensSOP_clamping(c) ==
    IF c.missing # {}
    THEN [ok |-> FALSE, rec |-> << >>]
    ELSE [ok |-> TRUE,
          rec |-> <<[RecordOf(c) EXCEPT !.confidence_score =
                        IF @ < ScoreGe THEN ScoreGe ELSE IF @ > ScoreLe THEN ScoreLe ELSE @]>>]

\* SiemensSOP(**c): pydantic validation.  Every field is required (no
\* default), str and List[str] fields accept any string, the empty one
\* included, confidence_score must satisfy ge=1 and le=10.  A failure raises
\* ValidationError and constructs nothing.
SiemensSOP(c) ==
    IF c.missing = {} /\ c.confidence_score >= ScoreGe /\ c.confidence_score <= ScoreLe
    THEN [ok |-> TRUE, rec |-> <<RecordOf(c)>>]
    ELSE [ok |-> FALSE, rec |-> << >>]

-----------------------------------------------------------------------------
(* migrator.py: generate_word_doc *)

\* Bounds of the records that are rendered.
MaxRenderListLen == 3
MaxTitleLen == 3

\* safe_title[:50]
SafeTitleMax == 50

\* OUTPUT_DIR = Path(__file__).parent / "output_docs"
OUTPUT_DIR == "output_docs"

\* Character classes of the regular expression [^\w\s-] and of str.strip(),
\* over the characters the model uses.
WordChars  == {"a", "b", "7", "_"}
SpaceChars == {" ", "\t", "\n"}
OtherChars == {"!", ".", "/"}
IsWord(c)  == c \in WordChars
IsSpace(c) == c \in SpaceChars

\* A run of a paragraph with the attributes the code sets on it.
Run(text, bold, italic, size, color) ==
    [text |-> text, bold |-> bold, italic |-> italic, size |-> size, color |-> color]

\* A body element of the document, in document order.
Element(kind, style, align, runs, rows) ==
    [kind |-> kind, style |-> style, align |-> align, runs |-> runs, rows |-> rows]

Para(style, align, runs) == Element("paragraph", style, align, runs, << >>)

\* doc.add_paragraph()  # spacer
Spacer == Para("Normal", "", << >>)

\* _add_heading(doc, text, level=0)
_add_heading(text) ==
    Element("heading", "Title", "", <<Run(text, FALSE, FALSE, 0, "008080")>>, << >>)

\* _add_section_header(doc, text)
_add_section_header(text) ==
    Para("Normal", "", <<Run(text, TRUE, FALSE, 13, "003366")>>)

\* The metadata table: four rows of (label, value).
MetadataTable(data) ==
    Element("table", "Light Grid Accent 1", "", << >>,
            << <<"Document Title", data.title>>,
               <<"Document ID", data.document_id>>,
               <<"Version", data.version>>,
               <<"Department", data.department>> >>)

\* A plausible slip: a warning already listed is not listed again.
RECURSIVE WarningParagraphs_dedup(_)
WarningParagraphs_dedup(warnings) ==
    IF warnings = << >> THEN << >>
    ELSE LET n == Len(warnings)
             front == SubSeq(warnings, 1, n - 1)
         IN  IF warnings[n] \in Range(front)
             THEN WarningParagraphs_dedup(front)
             ELSE Append(WarningParagraphs_dedup(front),
                         Para("List Bullet", "", <<Run(warnings[n], TRUE, FALSE, 10, "CC0000")>>))

\* for warning in data.safety_warnings: one red bold bullet per entry
WarningParagraphs(warnings) ==
    [i \in 1..Len(warnings) |->
        Para("List Bullet", "", <<Run(warnings[i], TRUE, FALSE, 10, "CC0000")>>)]

\* for item in data.equipment: one bullet per entry
EquipmentParagraphs(equipment) ==
    [i \in 1..Len(equipment) |->
        Para("List Bullet", "", <<Run(equipment[i], FALSE, FALSE, 10, "")>>)]

\* f"Step {i}:  "
StepLabel(i) == "Step " \o ToString(i) \o ":  "

\* A plausible slip: enumerate(data.steps) without the start value 1.
StepParagraphs_zeroBased(steps) ==
    [i \in 1..Len(steps) |->
        Para("Normal", "", <<Run(StepLabel(i - 1), TRUE, FALSE, 10, "003366"),
                             Run(steps[i], FALSE, FALSE, 10, "")>>)]

\* for i, step in enumerate(data.steps, 1): a label run and a text run
StepParagraphs(steps) ==
    [i \in 1..Len(steps) |->
        Para("Normal", "", <<Run(StepLabel(i), TRUE, FALSE, 10, "003366"),
                             Run(steps[i], FALSE, FALSE, 10, "")>>)]

SafetyHeader    == "Safety Warnings & Precautions"
EquipmentHeader == "Required Equipment"
StepsHeader     == "Procedure Steps"

\* The body of the document that generate_word_doc builds before saving.
BuildDoc(data) ==
    << _add_heading("Siemens Digital Industries"),
       Para("Normal", "CENTER",
            <<Run("Standard Operating Procedure", TRUE, FALSE, 16, "003366")>>),
       Spacer,
       MetadataTable(data),
       Spacer,
       _add_section_header(SafetyHeader) >>
    \o WarningParagraphs(data.safety_warnings)
    \o << Spacer, _add_section_header(EquipmentHeader) >>
    \o EquipmentParagraphs(data.equipment)
    \o << Spacer, _add_section_header(StepsHeader) >>
    \o StepParagraphs(data.steps)
    \o << Spacer,
          Para("Normal", "CENTER",
               <<Run("This document was auto-generated by the Siemens AI Document Migration System. Please review and approve before use.",
                     FALSE, TRUE, 8, "808080")>>) >>

\* re.sub(r"[^\w\s-]", "", title)
ReSub(title) == SelectSeq(title, LAMBDA c : IsWord(c) \/ IsSpace(c) \/ c = "-")

\* str.strip(): drop leading and trailing whitespace
Strip(s) ==
    LET keep == {i \in 1..Len(s) : ~IsSpace(s[i])}
    IN  IF keep = {} THEN << >>
        ELSE LET lo == CHOOSE i \in keep : \A j \in keep : i <= j
                 hi == CHOOSE i \in keep : \A j \in keep : j <= i
             IN  SubSeq(s, lo, hi)

\* str.replace(" ", "_"): every space character becomes an underscore
ReplaceSpace(s) == [i \in 1..Len(s) |-> IF s[i] = " " THEN "_" ELSE s[i]]

\* s[:50]
Truncate(s) == SubSeq(s, 1, Min(SafeTitleMax, Len(s)))

\* safe_title = re.sub(...).strip().replace(" ", "_")[:50]
safe_title(title) == Truncate(ReplaceSpace(Strip(ReSub(title))))

\* filename = f"{safe_title}_v{data.version}.docx"
filename(data) ==
    safe_title(data.title) \o <<"_", "v">> \o data.version \o <<".", "d", "o", "c", "x">>

\* filepath = OUTPUT_DIR / filename
filepath(data) == [dir |-> OUTPUT_DIR, name |-> filename(data)]

\* generate_word_doc(data) up to the save: the document and where it goes.
generate_word_doc(data) == [doc |-> BuildDoc(data), path |-> filepath(data)]

-----------------------------------------------------------------------------
(* migrator.py: read_file *)

\* Bound of the documents that are read.
MaxPages == 3

\* str.lower() on the characters that occur in the suffixes of the model.
LowerChar(c) ==
    CASE c = "P" -> "p" [] c = "D" -> "d" [] c = "F" -> "f"
      [] c = "T" -> "t" [] c = "X" -> "x" [] OTHER -> c

Lower(s) == [i \in 1..Len(s) |-> LowerChar(s[i])]

PdfSuffix == <<".", "p", "d", "f">>
TxtSuffix == <<".", "t", "x", "t">>

\* page.extract_text() returns None or a string: << >> or <<string>>.
PageResults == {<< >>, << << >> >>, << <<"x">> >>, << <<"y", "\n", "z">> >>}

\* page.extract_text() or ""
PageText(p) == IF p = << >> \/ p[1] = << >> THEN << >> ELSE p[1]

\* "\n".join(texts)
RECURSIVE Join(_)
Join(texts) ==
    IF texts = << >> THEN << >>
    ELSE IF Len(texts) = 1 THEN texts[1]
    ELSE Join(SubSeq(texts, 1, Len(texts) - 1)) \o <<"\n">> \o texts[Len(texts)]

Ok(text)  == [ok |-> TRUE, err |-> "", text |-> text]
Fail(err) == [ok |-> FALSE, err |-> err, text |-> << >>]

\* A plausible slip: pages without extractable text are left out of the join.
ReadPdf_skipEmpty(f) ==
    IF f.kind # "pdf" THEN Fail("PdfReadError")
    ELSE Ok(Join(SelectSeq([i \in 1..Len(f.pages) |-> PageText(f.pages[i])],
                           LAMBDA t : t # << >>)))

\* reader = PdfReader(str(path)); "\n".join(page.extract_text() or "" ...)
\* PdfReader raises on a file that is not a PDF.
ReadPdf(f) ==
    IF f.kind # "pdf" THEN Fail("PdfReadError")
    ELSE Ok(Join([i \in 1..Len(f.pages) |-> PageText(f.pages[i])]))

\* path.read_text(encoding="utf-8"): the decoded bytes, or UnicodeDecodeError
ReadText(f) == IF f.utf8 THEN Ok(f.bytes) ELSE Fail("UnicodeDecodeError")

\* read_file(file_path)
read_file(f) == IF Lower(f.suffix) = PdfSuffix THEN ReadPdf(f) ELSE ReadText(f)

\* A record of the kind the extraction prompt asks for.
BaseCandidate ==
    [title |-> <<"a", " ", "b">>, document_id |-> "SOP-2024-001",
     version |-> <<"2", ".", "0">>, department |-> "Manufacturing",
     safety_warnings |-> <<"Wear gloves.">>, equipment |-> << >>,
     steps |-> <<"Open valve.">>, confidence_score |-> 8, missing |-> {}]

\* A plausible slip: an existing file is kept.
WriteFile_keepExisting(f, path, doc) ==
    IF path \in DOMAIN f THEN f
    ELSE [q \in DOMAIN f \cup {path} |-> IF q = path THEN doc ELSE f[q]]

\* doc.save(str(filepath)): the file at path is created or replaced; nothing
\* looks at what is already there.
WriteFile(f, path, doc) ==
    [q \in DOMAIN f \cup {path} |-> IF q = path THEN doc ELSE f[q]]

-----------------------------------------------------------------------------
(* migrator.py: extract_sop *)

\* Bound on the requests sent to the extraction capability.
MaxNetCalls == 2

\* The placeholder app.py compares the key with.
Placeholder == "your-api-key-here"
ValidKey    == "sk-valid"

\* What the capability can answer to a request made with a valid key: a
\* transport failure, or data that the structured-output parser hands to
\* SiemensSOP.
ResponseData ==
    {[BaseCandidate EXCEPT !.title = t, !.steps = st] :
        t \in {<<"a", " ", "b">>, <<"a", "_", "b">>, <<"b">>},
        st \in {<<"Open valve.", "Close valve.">>}}
    \cup {[BaseCandidate EXCEPT !.title = << >>, !.steps = <<"">>],
          [BaseCandidate EXCEPT !.confidence_score = 11],
          [BaseCandidate EXCEPT !.confidence_score = 0],
          [BaseCandidate EXCEPT !.missing = {"title"}]}

Responses ==
    {[kind |-> "transport_error", data |-> BaseCandidate]}
    \cup {[kind |-> "data", data |-> d] : d \in ResponseData}

Raised(err, net)  == [ok |-> FALSE, err |-> err, rec |-> << >>, net |-> net]
Returned(r, net)  == [ok |-> TRUE, err |-> "", rec |-> <<r>>, net |-> net]

\* extract_sop(text, model) run with the key found in the environment and
\* the capability answering resp.  ChatOpenAI(...) raises when no key is set;
\* with any key the chain sends the request; the capability rejects a key
\* that is not valid; the structured output is validated by SiemensSOP and a
\* failure of that validation is raised.  extract_sop catches nothing and
\* wraps nothing: every failure leaves it as the library's exception.
extract_sop(key, resp) ==
    IF key = << >> THEN Raised("OpenAIError", 0)
    ELSE IF key[1] # ValidKey THEN Raised("AuthenticationError", 1)
    ELSE IF resp.kind = "transport_error" THEN Raised("APIConnectionError", 1)
    ELSE IF SiemensSOP(resp.data).ok THEN Returned(SiemensSOP(resp.data).rec[1], 1)
    ELSE Raised("ValidationError", 1)

-----------------------------------------------------------------------------
(* app.py *)

\* The first entry of the sample select box (an em dash on each side in the code).
NoSample == "- Select -"

SampleNames == {"sample_sop.txt"}

\* sample_dir / selected_sample
SampleFile(name) ==
    [suffix |-> TxtSuffix, kind |-> "text", utf8 |-> TRUE,
     bytes |-> <<"s", "o", "p">>, pages |-> << >>]

\* What the uploader (type=["txt", "pdf"]) can hold.
UploadFiles ==
    {[suffix |-> TxtSuffix, kind |-> "text", utf8 |-> TRUE, bytes |-> <<"h", "i">>, pages |-> << >>],
     [suffix |-> TxtSuffix, kind |-> "binary", utf8 |-> FALSE, bytes |-> << >>, pages |-> << >>],
     [suffix |-> PdfSuffix, kind |-> "pdf", utf8 |-> FALSE, bytes |-> << >>,
      pages |-> << << <<"x">> >>, << >> >>]}

\* if api_key_input: os.environ["OPENAI_API_KEY"] = api_key_input
SidebarEnv(input, env) == IF input # "" THEN <<input>> ELSE env

\* The raw_text of a script run: << >> for None, else the outcome of read_file.
InputText(up, sel) ==
    IF up # << >> THEN <<read_file(up[1])>>
    ELSE IF sel # "" /\ sel # NoSample THEN <<read_file(SampleFile(sel))>>
    ELSE << >>

\* The two-column view with its buttons is reached: raw_text is not None
\* and reading it did not raise.
ViewShown(up, sel) == InputText(up, sel) # << >> /\ InputText(up, sel)[1].ok

\* if not api_key or api_key == "your-api-key-here"
KeyRefused(env) == env = << >> \/ env[1] = "" \/ env[1] = Placeholder

\* A plausible slip: a failed extraction clears the record of the session.
StoreExtracted_clearOnFailure(before, r) == IF r.ok THEN r.rec ELSE << >>

\* try: sop = extract_sop(...); st.session_state.sop_data = sop
\* except Exception as e: st.error(...)
StoreExtracted(before, r) == IF r.ok THEN r.rec ELSE before

-----------------------------------------------------------------------------
(* Idle values of the variables a specification does not use *)

IdleSchema == cand = [missing |-> {}] /\ vres = << >>
IdleRender == rec = [title |-> << >>] /\ rres = << >>
IdleReader == file = [suffix |-> << >>] /\ fres = << >>
IdleApp ==
    /\ envKey = << >>
    /\ api_key_input = ""
    /\ uploaded_file = << >>
    /\ selected_sample = ""
    /\ sop_data = << >>
    /\ sop_from = << >>
    /\ output_path = << >>
    /\ path_from = << >>
    /\ netCalls = 0
    /\ lastExtract = << >>
IdleOut ==
    /\ fs = << >>
    /\ pending = << >>
    /\ lastSaved = << >>

-----------------------------------------------------------------------------
(* Specification of the Schema: validate one candidate *)

InitSchema ==
    /\ cand \in Candidates
    /\ vres = << >>
    /\ IdleRender /\ IdleReader /\ IdleApp /\ IdleOut

Validate ==
    /\ vres = << >>
    /\ vres' = <<SiemensSOP(cand)>>
    /\ UNCHANGED <<cand, renderVars, readerVars, appVars, outVars>>

NextSchema == Validate

SpecSchema == InitSchema /\ [][NextSchema]_vars

\* C1: validation fails for every confidence_score outside [1,10] and
\* constructs no record for it (so no clamped value exists); with all fields
\* present it succeeds for every score in 1..10 and keeps the score.
C1_ScoreRange ==
    vres # << >> =>
        /\ (cand.confidence_score < 1 \/ cand.confidence_score > 10)
              => (~vres[1].ok /\ vres[1].rec = << >>)
        /\ (cand.missing = {} /\ cand.confidence_score \in 1..10)
              => (vres[1].ok /\ vres[1].rec # << >>
                  /\ vres[1].rec[1].confidence_score = cand.confidence_score)

\* A score of 11 with every other field valid has been validated.
C1_Witness ==
    /\ vres # << >>
    /\ cand.missing = {}
    /\ cand.confidence_score = 11
    /\ ~vres[1].ok

NonEmptyEntries(l) == \A i \in 1..Len(l) : l[i] # ""

\* C2: every record that passes validation has a non-empty title, a
\* non-empty department and only non-empty entries in safety_warnings,
\* equipment and steps.
C2_NonEmptyFields ==
    (vres # << >> /\ vres[1].ok) =>
        LET r == vres[1].rec[1] IN
        /\ r.title # << >>
        /\ r.department # ""
        /\ NonEmptyEntries(r.safety_warnings)
        /\ NonEmptyEntries(r.equipment)
        /\ NonEmptyEntries(r.steps)

-----------------------------------------------------------------------------
(* Specification of the Renderer: render one valid record *)

RenderChars == {"a", "_", "-", " ", "\t", "!"}

ShortTitles == SeqUpTo(RenderChars, MaxTitleLen)

\* Titles around the truncation length.
LongTitles ==
    {Rep("a", n) : n \in (SafeTitleMax - 1)..(SafeTitleMax + 2)}
    \cup {Rep("a", SafeTitleMax - 1) \o t : t \in {<<" ", "b">>, <<"!", "b", "b">>, <<" ", " ">>}}

RenderTexts == {"", "Wear gloves.", "Open valve."}
RenderLists == SeqUpTo(RenderTexts, MaxRenderListLen)

RenderCandidates ==
    {[BaseCandidate EXCEPT !.title = t, !.version = v] :
        t \in ShortTitles \cup LongTitles, v \in {<<"2", ".", "0">>, <<"1">>}}
    \cup {[BaseCandidate EXCEPT !.safety_warnings = w, !.steps = st, !.equipment = e] :
        w \in RenderLists, st \in RenderLists, e \in {<< >>, <<"Wrench">>}}

\* The records generate_word_doc can be given: those validation constructs.
ValidRecords(C) == {SiemensSOP(c).rec[1] : c \in {x \in C : SiemensSOP(x).ok}}

InitRender ==
    /\ rec \in ValidRecords(RenderCandidates)
    /\ rres = << >>
    /\ IdleSchema /\ IdleReader /\ IdleApp /\ IdleOut

Render ==
    /\ rres = << >>
    /\ rres' = <<generate_word_doc(rec)>>
    /\ UNCHANGED <<rec, schemaVars, readerVars, appVars, outVars>>

NextRender == Render

SpecRender == InitRender /\ [][NextRender]_vars

IsSpacer(e) == e.kind = "paragraph" /\ e.runs = << >>

IsHeader(e, text) ==
    /\ e.kind = "paragraph" /\ e.style = "Normal" /\ Len(e.runs) = 1
    /\ e.runs[1].text = text /\ e.runs[1].bold /\ e.runs[1].size = 13

\* The elements of d between the section header and the next spacer.
SectionItems(d, header) ==
    LET hs == {i \in 1..Len(d) : IsHeader(d[i], header)}
        h  == CHOOSE i \in hs : \A j \in hs : i <= j
        es == {i \in (h + 1)..Len(d) : IsSpacer(d[i])}
        e  == CHOOSE i \in es : \A j \in es : i <= j
    IN  SubSeq(d, h + 1, e - 1)

HasOneSection(d, header) == Cardinality({i \in 1..Len(d) : IsHeader(d[i], header)}) = 1

\* C3: the Procedure Steps section has exactly len(steps) entries; the k-th
\* is labelled "Step k" and carries steps[k-1] (0-based), in input order.
C3_StepNumbering ==
    rres # << >> =>
        LET d == rres[1].doc
            items == SectionItems(d, StepsHeader)
        IN  /\ HasOneSection(d, StepsHeader)
            /\ Len(items) = Len(rec.steps)
            /\ \A k \in 1..Len(rec.steps) :
                  /\ Len(items[k].runs) = 2
                  /\ items[k].runs[1].text = "Step " \o ToString(k) \o ":  "
                  /\ items[k].runs[2].text = rec.steps[k]

\* A record with three steps, two of them different, has been rendered.
C3_Witness ==
    /\ rres # << >>
    /\ Len(rec.steps) = 3
    /\ rec.steps[1] # rec.steps[2]

\* C4: the Safety Warnings section has one bullet per entry of
\* safety_warnings, carrying the entry verbatim, in the record's order.
C4_WarningsVerbatim ==
    rres # << >> =>
        LET d == rres[1].doc
            items == SectionItems(d, SafetyHeader)
        IN  /\ HasOneSection(d, SafetyHeader)
            /\ Len(items) = Len(rec.safety_warnings)
            /\ \A k \in 1..Len(rec.safety_warnings) :
                  /\ items[k].style = "List Bullet"
                  /\ Len(items[k].runs) = 1
                  /\ items[k].runs[1].text = rec.safety_warnings[k]

\* A record whose warnings repeat an entry and are not sorted has been rendered.
C4_Witness ==
    /\ rres # << >>
    /\ rec.safety_warnings = <<"Wear gloves.", "Open valve.", "Wear gloves.">>

\* The sanitized title part of the file name that was written.
TitlePart(name, version) == SubSeq(name, 1, Len(name) - Len(version) - 7)

\* collapse each run of whitespace to one underscore
RECURSIVE CollapseSpace(_)
CollapseSpace(s) ==
    IF s = << >> THEN << >>
    ELSE LET n == Len(s)
             front == SubSeq(s, 1, n - 1)
         IN  IF IsSpace(s[n])
             THEN IF n > 1 /\ IsSpace(s[n - 1]) THEN CollapseSpace(front)
                  ELSE Append(CollapseSpace(front), "_")
             ELSE Append(CollapseSpace(front), s[n])

NoAdjacentUnderscores(s) == \A i \in 1..(Len(s) - 1) : ~(s[i] = "_" /\ s[i + 1] = "_")

\* C5: the file name is the title stripped of every character that is not
\* alphanumeric, whitespace or hyphen, with each internal run of whitespace
\* collapsed to one underscore, cut to 50 characters, followed by the version
\* tag; the title part has no two adjacent underscores and no whitespace.
C5_FilenameSanitized ==
    rres # << >> =>
        LET name == rres[1].path.name
            part == TitlePart(name, rec.version)
            kept == SelectSeq(rec.title, LAMBDA c : IsWord(c) \/ IsSpace(c) \/ c = "-")
            want == CollapseSpace(Strip(kept))
        IN  /\ part = SubSeq(want, 1, Min(50, Len(want)))
            /\ name = part \o <<"_", "v">> \o rec.version \o <<".", "d", "o", "c", "x">>
            /\ Len(part) <= 50
            /\ NoAdjacentUnderscores(part)
            /\ \A i \in 1..Len(part) : ~IsSpace(part[i])

-----------------------------------------------------------------------------
(* Specification of the Reader: read one file *)

Suffixes == {TxtSuffix, PdfSuffix, <<".", "P", "D", "F">>, <<".", "m", "d">>,
             <<".", "d", "o", "c", "x">>, << >>}

\* The files read_file can be pointed at: a file has a name suffix and
\* content that is UTF-8 text, a PDF of some pages, or other binary data.
\* bytes is what decoding the content as UTF-8 gives when that succeeds
\* (a PDF is treated as not decodable).
Files ==
    {[suffix |-> sx, kind |-> "text", utf8 |-> TRUE, bytes |-> b, pages |-> << >>] :
        sx \in Suffixes, b \in {<< >>, <<"h", "i">>, <<"h", "\n", "i">>}}
    \cup {[suffix |-> sx, kind |-> "binary", utf8 |-> FALSE, bytes |-> << >>, pages |-> << >>] :
        sx \in Suffixes}
    \cup {[suffix |-> sx, kind |-> "pdf", utf8 |-> FALSE, bytes |-> << >>, pages |-> ps] :
        sx \in Suffixes, ps \in SeqUpTo(PageResults, MaxPages)}

InitReader ==
    /\ file \in Files
    /\ fres = << >>
    /\ IdleSchema /\ IdleRender /\ IdleApp /\ IdleOut

ReadFile ==
    /\ fres = << >>
    /\ fres' = <<read_file(file)>>
    /\ UNCHANGED <<file, schemaVars, renderVars, appVars, outVars>>

NextReader == ReadFile

SpecReader == InitReader /\ [][NextReader]_vars

\* The declared format of a file is given by its suffix.
SupportedFormat(f) == Lower(f.suffix) \in {TxtSuffix, PdfSuffix}

\* C7: read_file on an input that is neither plain text nor a paginated
\* document fails with UnsupportedFormatError and returns no text.
C7_UnsupportedFormat ==
    (fres # << >> /\ ~SupportedFormat(file)) =>
        (~fres[1].ok /\ fres[1].err = "UnsupportedFormatError")

IsPdfDocument(f) == Lower(f.suffix) = PdfSuffix /\ f.kind = "pdf"

RECURSIVE SumLen(_)
SumLen(texts) ==
    IF texts = << >> THEN 0 ELSE Len(texts[1]) + SumLen(Tail(texts))

\* Where the text of page k starts in the result: after the texts of the
\* pages before it and one separator for each of them.
PageStart(f, k) == SumLen([i \in 1..(k - 1) |-> PageText(f.pages[i])]) + (k - 1)

\* The read succeeded, page k's text (empty when the page has none) stands
\* at its own position, and a newline stands before every page but the first.
PagesInPlace(f, r) ==
    /\ r.ok
    /\ \A k \in 1..Len(f.pages) :
          LET t == PageText(f.pages[k])
              o == PageStart(f, k)
          IN  /\ o + Len(t) <= Len(r.text)
              /\ SubSeq(r.text, o + 1, o + Len(t)) = t
              /\ (f.pages[k] = << >> => t = << >>)
              /\ k > 1 => r.text[o] = "\n"

\* The separators in the result: what is not page text.
Separators(f, r) == Len(r.text) - SumLen([i \in 1..Len(f.pages) |-> PageText(f.pages[i])])

\* C8 as stated: the read of an n-page document succeeds, gives the page
\* texts in page order with empty strings for pages without text, and the
\* result always has exactly n-1 separators.
C8_AlwaysNMinusOne ==
    (fres # << >> /\ IsPdfDocument(file)) =>
        /\ PagesInPlace(file, fres[1])
        /\ Separators(file, fres[1]) = Len(file.pages) - 1

\* C8 amended: as above, with exactly n-1 separators when the document has
\* at least one page and the empty text when it has none.
C8_PagesJoined ==
    (fres # << >> /\ IsPdfDocument(file)) =>
        /\ PagesInPlace(file, fres[1])
        /\ Len(file.pages) >= 1 => Separators(file, fres[1]) = Len(file.pages) - 1
        /\ Len(file.pages) = 0 => fres[1].text = << >>

\* A three-page document whose middle page has no extractable text was read.
C8_Witness ==
    /\ fres # << >>
    /\ IsPdfDocument(file)
    /\ Len(file.pages) = 3
    /\ file.pages[1] = << <<"x">> >>
    /\ file.pages[2] = << >>
    /\ file.pages[3] = << <<"y", "\n", "z">> >>
    /\ fres[1].ok

-----------------------------------------------------------------------------
(* Specification of OUTPUT_DIR: callers of generate_word_doc (threads of   *)
(* the app, runs of the command line) rendering at the same time.  Between *)
(* building the document and doc.save another render may run.              *)

Renderers == {"r1", "r2"}

OutputRecords == ValidRecords(ResponseData)

InitOutput ==
    /\ fs = << >>
    /\ pending = [p \in Renderers |-> << >>]
    /\ lastSaved = << >>
    /\ IdleSchema /\ IdleRender /\ IdleReader /\ IdleApp

\* generate_word_doc(data), lines 112-197: the document and its path.  A
\* job is marked racing when another job for its path is in flight with it.
Build(p, r) ==
    /\ pending[p] = << >>
    /\ LET g == generate_word_doc(r)
           clash(q) == q # p /\ pending[q] # << >> /\ pending[q][1].path = g.path
       IN  pending' = [q \in Renderers |->
                          IF q = p
                          THEN <<[rec |-> r, doc |-> g.doc, path |-> g.path,
                                  racing |-> \E o \in Renderers : clash(o)]>>
                          ELSE IF clash(q)
                          THEN <<[pending[q][1] EXCEPT !.racing = TRUE]>>
                          ELSE pending[q]]
    /\ UNCHANGED <<fs, lastSaved, schemaVars, renderVars, readerVars, appVars>>

\* generate_word_doc(data), lines 198-200: doc.save and return
Save(p) ==
    /\ pending[p] # << >>
    /\ LET job == pending[p][1] IN
       /\ fs' = WriteFile(fs, job.path, job.doc)
       /\ lastSaved' = <<[by |-> p, rec |-> job.rec, doc |-> job.doc, path |-> job.path,
                          racing |-> job.racing,
                          over |-> IF job.path \in DOMAIN fs THEN <<fs[job.path]>> ELSE << >>]>>
    /\ pending' = [pending EXCEPT ![p] = << >>]
    /\ UNCHANGED <<schemaVars, renderVars, readerVars, appVars>>

NextOutput ==
    \/ \E p \in Renderers, r \in OutputRecords : Build(p, r)
    \/ \E p \in Renderers : Save(p)

SpecOutput == InitOutput /\ [][NextOutput]_vars

SameTarget(r1, r2) == safe_title(r1.title) = safe_title(r2.title) /\ r1.version = r2.version

\* The renders the state knows of: those in flight and the last one saved.
KnownRenders ==
    {pending[p][1] : p \in {q \in Renderers : pending[q] # << >>}}
    \cup {lastSaved[i] : i \in 1..Len(lastSaved)}

-----------------------------------------------------------------------------
(* Specification of the application: one browser session of app.py, each   *)
(* action one run of the script, and runs of the command line entry point  *)
(* of migrator.py, which has its own environment and shares OUTPUT_DIR.    *)

KeysTyped == {"", Placeholder, ValidKey}
EnvKeys   == {<< >>, <<Placeholder>>, <<ValidKey>>}

Init ==
    /\ envKey \in EnvKeys
    /\ api_key_input = ""
    /\ uploaded_file = << >>
    /\ selected_sample = NoSample
    /\ sop_data = << >>
    /\ sop_from = << >>
    /\ output_path = << >>
    /\ path_from = << >>
    /\ netCalls = 0
    /\ lastExtract = << >>
    /\ fs = << >>
    /\ pending = << >>
    /\ lastSaved = << >>
    /\ IdleSchema /\ IdleRender /\ IdleReader

sessionState == <<sop_data, sop_from, output_path, path_from>>

\* The user edits the API key box: the script runs with the new text.
TypeApiKey(k) ==
    /\ k # api_key_input
    /\ api_key_input' = k
    /\ envKey' = SidebarEnv(k, envKey)
    /\ UNCHANGED <<uploaded_file, selected_sample, sessionState, netCalls, lastExtract,
                   outVars, schemaVars, renderVars, readerVars>>

\* The user uploads a file or removes the uploaded one.
Upload(f) ==
    /\ f # uploaded_file
    /\ uploaded_file' = f
    /\ envKey' = SidebarEnv(api_key_input, envKey)
    /\ UNCHANGED <<api_key_input, selected_sample, sessionState, netCalls, lastExtract,
                   outVars, schemaVars, renderVars, readerVars>>

\* The user picks an entry of the sample select box.
SelectSample(n) ==
    /\ n # selected_sample
    /\ selected_sample' = n
    /\ envKey' = SidebarEnv(api_key_input, envKey)
    /\ UNCHANGED <<api_key_input, uploaded_file, sessionState, netCalls, lastExtract,
                   outVars, schemaVars, renderVars, readerVars>>

\* The record of an extraction attempt.
Attempt(who, key, refused, r, before, text) ==
    [who |-> who, key |-> key, refused |-> refused, ok |-> r.ok, err |-> r.err,
     net |-> r.net, rec |-> r.rec, before |-> before, text |-> text]

\* The user presses "Extract & Migrate" and the capability answers resp.
PressExtract(resp) ==
    /\ ViewShown(uploaded_file, selected_sample)
    /\ netCalls < MaxNetCalls
    /\ LET env  == SidebarEnv(api_key_input, envKey)
           text == InputText(uploaded_file, selected_sample)[1].text
       IN  /\ envKey' = env
           /\ IF KeyRefused(env)
              THEN /\ lastExtract' = <<Attempt("app", env, TRUE, Raised("", 0), sop_data, text)>>
                   /\ UNCHANGED <<sop_data, sop_from, netCalls>>
              ELSE LET r == extract_sop(env, resp) IN
                   /\ sop_data' = StoreExtracted(sop_data, r)
                   /\ sop_from' = IF r.ok THEN <<text>> ELSE sop_from
                   /\ netCalls' = netCalls + r.net
                   /\ lastExtract' = <<Attempt("app", env, FALSE, r, sop_data, text)>>
    /\ UNCHANGED <<api_key_input, uploaded_file, selected_sample, output_path, path_from,
                   outVars, schemaVars, renderVars, readerVars>>

\* The user presses "Generate New SOP Document"; saved tells whether
\* doc.save succeeded or raised.
PressGenerate(saved) ==
    /\ ViewShown(uploaded_file, selected_sample)
    /\ sop_data # << >>
    /\ envKey' = SidebarEnv(api_key_input, envKey)
    /\ IF saved
       THEN /\ fs' = WriteFile(fs, generate_word_doc(sop_data[1]).path,
                               generate_word_doc(sop_data[1]).doc)
            /\ output_path' = <<generate_word_doc(sop_data[1]).path>>
            /\ path_from' = sop_data
       ELSE UNCHANGED <<fs, output_path, path_from>>
    /\ UNCHANGED <<api_key_input, uploaded_file, selected_sample, sop_data, sop_from,
                   netCalls, lastExtract, pending, lastSaved,
                   schemaVars, renderVars, readerVars>>

\* python migrator.py <file> run with key in its environment: read_file,
\* extract_sop, generate_word_doc; an exception ends the run.
CliRun(key, f, resp) ==
    /\ netCalls < MaxNetCalls
    /\ read_file(f).ok
    /\ LET r == extract_sop(key, resp) IN
       /\ netCalls' = netCalls + r.net
       /\ lastExtract' = <<Attempt("cli", key, FALSE, r, sop_data, read_file(f).text)>>
       /\ fs' = IF r.ok
                THEN WriteFile(fs, generate_word_doc(r.rec[1]).path,
                               generate_word_doc(r.rec[1]).doc)
                ELSE fs
    /\ UNCHANGED <<envKey, api_key_input, uploaded_file, selected_sample, sessionState,
                   pending, lastSaved, schemaVars, renderVars, readerVars>>

CliFiles == {f \in UploadFiles : f.kind = "text"}

Next ==
    \/ \E k \in KeysTyped : TypeApiKey(k)
    \/ \E f \in {<< >>} \cup {<<u>> : u \in UploadFiles} : Upload(f)
    \/ \E n \in {NoSample} \cup SampleNames : SelectSample(n)
    \/ \E resp \in Responses : PressExtract(resp)
    \/ \E saved \in BOOLEAN : PressGenerate(saved)
    \/ \E key \in EnvKeys, f \in CliFiles, resp \in Responses : CliRun(key, f, resp)

Spec == Init /\ [][Next]_vars

\* if not api_key or api_key == "your-api-key-here": no usable credential
Usable(key) == key # << >> /\ key[1] # "" /\ key[1] # Placeholder

\* C6: extract_sop invoked with no usable credential fails with
\* ExtractionError and sends nothing to the extraction capability.
C6_MissingCredential ==
    (lastExtract # << >> /\ ~lastExtract[1].refused /\ ~Usable(lastExtract[1].key)) =>
        /\ ~lastExtract[1].ok
        /\ lastExtract[1].err = "ExtractionError"
        /\ lastExtract[1].net = 0

\* The record has every field of the Schema and a score within 1..10.
SatisfiesSchema(r) ==
    /\ DOMAIN r = FieldNames
    /\ r.confidence_score \in 1..10

RecordShown == ViewShown(uploaded_file, selected_sample) /\ sop_data # << >>

\* The raw text shown in the "Original Document" column.
ShownText == InputText(uploaded_file, selected_sample)[1].text

\* C11: whenever the session's record is displayed or can be rendered, it
\* was extracted from the raw text currently shown as the input document;
\* no record of a previous document stays beside a new document.
C11_RecordMatchesInput ==
    RecordShown => sop_from = <<ShownText>>

\* The download button is rendered (app.py line 388): the record is shown
\* and the session has an output path.
DownloadOffered == RecordShown /\ output_path # << >>

\* C12: whenever an artifact is offered for download, its path was produced
\* by rendering the record the session holds now; neither a new successful
\* extraction nor a failed generation leaves an earlier record's artifact
\* on offer.
C12_ArtifactMatchesRecord ==
    DownloadOffered =>
        /\ path_from = sop_data
        /\ output_path = <<generate_word_doc(sop_data[1]).path>>

====
